---- MODULE Spec2Model ----
(***************************************************************************)
(* SubscMan: the amount calculator (js/calculator.js), the storage layer   *)
(* with its local/cloud fallback (js/storage.js) and the form, rate and    *)
(* sync handlers of the UI and the app that drive them.                    *)
(*                                                                         *)
(* JavaScript numbers are modelled as exact rationals n/d in lowest terms  *)
(* plus NaN; IEEE-754 representation error of a product or a quotient is   *)
(* not modelled.  JavaScript strings that are parsed (form fields) are     *)
(* tuples of one-character strings, so that parseFloat is computed.        *)
(***************************************************************************)
EXTENDS Integers, Sequences, FiniteSets, TLC

(***************************************************************************)
(* JavaScript values                                                       *)
(***************************************************************************)

RECURSIVE GCD(_, _)
GCD(a, b) == IF b = 0 THEN a ELSE GCD(b, a % b)

Abs(i) == IF i < 0 THEN -i ELSE i

\* The number n/d (d # 0), in lowest terms with a positive denominator.
Rat(n, d) ==
    LET g == GCD(Abs(n), Abs(d))
        s == IF d < 0 THEN -1 ELSE 1
    IN  [t |-> "number", k |-> "fin", n |-> s * (n \div g), d |-> s * (d \div g)]

Int2Num(i) == Rat(i, 1)

NaN == [t |-> "number", k |-> "nan", n |-> 0, d |-> 1]

\* null: it counts as 0 in arithmetic and is not NaN.
Null == [t |-> "null", k |-> "null", n |-> 0, d |-> 1]

Str(s) == [t |-> "string", s |-> s]

isNaN(x) == x.k = "nan"

\* x * y of JavaScript numbers: NaN is absorbing.
NumMul(x, y) ==
    IF isNaN(x) \/ isNaN(y) THEN NaN ELSE Rat(x.n * y.n, x.d * y.d)

\* x / i for a non-zero integer literal i: the quotient is not rounded.
NumDivInt(x, i) ==
    IF isNaN(x) THEN NaN ELSE Rat(x.n, x.d * i)

\* x + y
NumAdd(x, y) ==
    IF isNaN(x) \/ isNaN(y) THEN NaN ELSE Rat(x.n * y.d + y.n * x.d, x.d * y.d)

\* x <= 0 and x > 0: every comparison with NaN is false.
NumLeqZero(x) == ~isNaN(x) /\ x.n <= 0
NumGtZero(x) == ~isNaN(x) /\ x.n > 0

\* !x for a number: 0 and NaN are falsy.
NumFalsy(x) == isNaN(x) \/ x.n = 0

\* Math.round: floor(x + 0.5), ties go towards +Infinity; NaN stays NaN.
Math_round(x) ==
    IF isNaN(x) THEN NaN ELSE Int2Num((2 * x.n + x.d) \div (2 * x.d))

(***************************************************************************)
(* parseFloat                                                              *)
(***************************************************************************)

Digits == <<"0", "1", "2", "3", "4", "5", "6", "7", "8", "9">>

IsDigit(c) == \E i \in 1..10 : Digits[i] = c

DigitVal(c) == (CHOOSE i \in 1..10 : Digits[i] = c) - 1

RECURSIVE TrimLeft(_)
TrimLeft(s) == IF s # <<>> /\ Head(s) = " " THEN TrimLeft(Tail(s)) ELSE s

\* The number of leading decimal digits of s.
RECURSIVE DigitRun(_)
DigitRun(s) == IF s # <<>> /\ IsDigit(Head(s)) THEN 1 + DigitRun(Tail(s)) ELSE 0

RECURSIVE DigitsValue(_, _)
DigitsValue(s, acc) ==
    IF s = <<>> THEN acc ELSE DigitsValue(Tail(s), 10 * acc + DigitVal(Head(s)))

RECURSIVE Pow10(_)
Pow10(k) == IF k = 0 THEN 1 ELSE 10 * Pow10(k - 1)

\* parseFloat of a string: leading blanks are skipped, then the longest prefix
\* [+-] digits [. digits] is read and whatever follows is ignored; with no
\* digit at all the result is NaN.  (Exponents and the Infinity literal are
\* not in the alphabet of the inputs.)
parseFloatText(s) ==
    LET s1 == TrimLeft(s)
        neg == s1 # <<>> /\ Head(s1) = "-"
        s2 == IF s1 # <<>> /\ Head(s1) \in {"-", "+"} THEN Tail(s1) ELSE s1
        ni == DigitRun(s2)
        s3 == SubSeq(s2, ni + 1, Len(s2))
        dot == s3 # <<>> /\ Head(s3) = "."
        s4 == IF dot THEN Tail(s3) ELSE <<>>
        nf == DigitRun(s4)
        mant == DigitsValue(SubSeq(s2, 1, ni) \o SubSeq(s4, 1, nf), 0)
    IN  IF ni = 0 /\ nf = 0 THEN NaN
        ELSE Rat(IF neg THEN -mant ELSE mant, Pow10(nf))

\* parseFloat(v): a number is converted to its decimal string and read back,
\* which gives the number itself (NaN for NaN).
parseFloat(v) ==
    IF v.t = "number" THEN v
    ELSE IF v.t = "string" THEN parseFloatText(v.s)
    ELSE NaN

(***************************************************************************)
(* SubscriptionCalculator                                                  *)
(***************************************************************************)

\* The billing cycles '月払い', '年払い', 'その他' and the category 'その他'.
CycleMonthly == "MONTHLY"
CycleYearly == "YEARLY"
CycleOther == "OTHER"
CategoryOther == "Other"

\* A property that is absent from an object, or an empty select value.
Undefined == "undefined"

\* Variant: the product of a USD conversion is rounded inside the converter.
convertToJPY_rounded(amount, currency, exchangeRate) ==
    IF currency = "JPY" THEN amount
    ELSE IF currency = "USD" THEN Math_round(NumMul(amount, exchangeRate))
    ELSE amount

\* Variant: every currency that is not JPY is converted with the rate.
convertToJPY_foreign(amount, currency, exchangeRate) ==
    IF currency = "JPY" THEN amount ELSE NumMul(amount, exchangeRate)

convertToJPY(amount, currency, exchangeRate) ==
    IF currency = "JPY" THEN amount
    ELSE IF currency = "USD" THEN NumMul(amount, exchangeRate)
    ELSE amount

\* Variant: the amount is rounded before it is scaled by 12.
calculateMonthlyYearly_roundFirst(originalJPY, billingCycle) ==
    LET r == Math_round(originalJPY)
        monthly == IF billingCycle = CycleYearly THEN NumDivInt(r, 12) ELSE r
        yearly == IF billingCycle = CycleYearly THEN r ELSE NumMul(r, Int2Num(12))
    IN  [monthly |-> Math_round(monthly), yearly |-> Math_round(yearly)]

\* Variant: the yearly figure of a monthly amount is not multiplied by 12.
calculateMonthlyYearly_noTimes12(originalJPY, billingCycle) ==
    LET monthly == IF billingCycle = CycleYearly
                   THEN NumDivInt(originalJPY, 12) ELSE originalJPY
    IN  [monthly |-> Math_round(monthly), yearly |-> Math_round(originalJPY)]

\* Variant: the branches of the monthly and the yearly cycle are exchanged.
calculateMonthlyYearly_swapped(originalJPY, billingCycle) ==
    LET monthly == IF billingCycle = CycleMonthly
                   THEN NumDivInt(originalJPY, 12) ELSE originalJPY
        yearly == IF billingCycle = CycleMonthly
                  THEN originalJPY ELSE NumMul(originalJPY, Int2Num(12))
    IN  [monthly |-> Math_round(monthly), yearly |-> Math_round(yearly)]

\* Variant: the yearly cycle falls through to the default branch.
calculateMonthlyYearly_noYearly(originalJPY, billingCycle) ==
    [monthly |-> Math_round(originalJPY),
     yearly |-> Math_round(NumMul(originalJPY, Int2Num(12)))]

\* Variant: the monthly figure of a yearly amount is cut down to a whole
\* number (Math.floor) instead of being rounded.
calculateMonthlyYearly_floorDivision(originalJPY, billingCycle) ==
    LET floor(x) == IF isNaN(x) THEN NaN ELSE Int2Num(x.n \div x.d)
    IN  IF billingCycle = CycleYearly
        THEN [monthly |-> floor(NumDivInt(originalJPY, 12)),
              yearly |-> Math_round(originalJPY)]
        ELSE [monthly |-> Math_round(originalJPY),
              yearly |-> Math_round(NumMul(originalJPY, Int2Num(12)))]

\* Variant: both figures are truncated, not rounded.
calculateMonthlyYearly_truncated(originalJPY, billingCycle) ==
    LET floor(x) == IF isNaN(x) THEN NaN ELSE Int2Num(x.n \div x.d)
    IN  IF billingCycle = CycleYearly
        THEN [monthly |-> floor(NumDivInt(originalJPY, 12)),
              yearly |-> floor(originalJPY)]
        ELSE [monthly |-> floor(originalJPY),
              yearly |-> floor(NumMul(originalJPY, Int2Num(12)))]

\* Variant: a cycle that is neither monthly nor yearly is treated as yearly.
calculateMonthlyYearly_otherAsYearly(originalJPY, billingCycle) ==
    IF billingCycle = CycleMonthly
    THEN [monthly |-> Math_round(originalJPY),
          yearly |-> Math_round(NumMul(originalJPY, Int2Num(12)))]
    ELSE [monthly |-> Math_round(NumDivInt(originalJPY, 12)),
          yearly |-> Math_round(originalJPY)]

calculateMonthlyYearly(originalJPY, billingCycle) ==
    LET monthly == CASE billingCycle = CycleMonthly -> originalJPY
                     [] billingCycle = CycleYearly -> NumDivInt(originalJPY, 12)
                     [] OTHER -> originalJPY
        yearly == CASE billingCycle = CycleMonthly -> NumMul(originalJPY, Int2Num(12))
                    [] billingCycle = CycleYearly -> originalJPY
                    [] OTHER -> NumMul(originalJPY, Int2Num(12))
    IN  [monthly |-> Math_round(monthly), yearly |-> Math_round(yearly)]

\* Variant: the amount is normalised without being converted to JPY.
calculateAmounts_noConversion(data, exchangeRate) ==
    LET my == calculateMonthlyYearly(parseFloat(data.amount_original),
                                     data.billing_cycle)
    IN  [amount_jpy_monthly |-> my.monthly, amount_jpy_yearly |-> my.yearly]

calculateAmounts(data, exchangeRate) ==
    LET originalJPY == convertToJPY(parseFloat(data.amount_original),
                                    data.currency, exchangeRate)
        my == calculateMonthlyYearly(originalJPY, data.billing_cycle)
    IN  [amount_jpy_monthly |-> my.monthly, amount_jpy_yearly |-> my.yearly]

\* A property that is absent where a number is expected.
UndefinedNum == [t |-> "undefined", k |-> "undefined", n |-> 0, d |-> 1]

\* !v: undefined, null, 0, NaN and the empty string are falsy.
Falsy(v) ==
    \/ v.t \in {"undefined", "null"}
    \/ v.t = "number" /\ NumFalsy(v)
    \/ v.t = "string" /\ v.s = <<>>

\* v || 0
OrZero(v) == IF Falsy(v) THEN Int2Num(0) ELSE v

\* String(i) of a natural number and of an integer-valued number.
RECURSIVE NatText(_)
NatText(i) ==
    IF i < 10 THEN <<Digits[i + 1]>>
    ELSE NatText(i \div 10) \o <<Digits[(i % 10) + 1]>>

NumberText(x) == IF x.n < 0 THEN <<"-">> \o NatText(0 - x.n) ELSE NatText(x.n)

\* a + b where b is a number: a sum of numbers, or a concatenation when a is
\* a string or an object (which is converted to a string first).
Plus(a, b) ==
    IF a.t = "string" THEN Str(a.s \o NumberText(b))
    ELSE NumAdd(IF a.t = "number" THEN a ELSE IF a.t = "null" THEN Int2Num(0) ELSE NaN, b)

\* What a fresh object {} inherits from Object.prototype under the keys
\* 'constructor' (the function Object) and '__proto__' (Object.prototype
\* itself).  Both are truthy, and both are converted to these texts by +.
ObjectConstructorText == <<"function Object() { [native code] }">>
ObjectPrototypeText == <<"[object Object]">>

\* An object built by assignments is the sequence of its own properties, in
\* insertion order.  breakdown[key]: the own property, or the inherited one.
getProperty(object, key) ==
    LET own == { i \in DOMAIN object : object[i].key = key }
    IN  IF own # {} THEN object[CHOOSE i \in own : TRUE].value
        ELSE IF key = "constructor" THEN Str(ObjectConstructorText)
        ELSE IF key = "__proto__" THEN Str(ObjectPrototypeText)
        ELSE UndefinedNum

\* breakdown[key] = v: an own property is written or added; an assignment of
\* a primitive to '__proto__' is ignored by its setter.
setProperty(object, key, v) ==
    LET own == { i \in DOMAIN object : object[i].key = key }
    IN  IF key = "__proto__" THEN object
        ELSE IF own # {}
        THEN [object EXCEPT ![CHOOSE i \in own : TRUE].value = v]
        ELSE Append(object, [key |-> key, value |-> v])

\* Variant: only the active records are added.
getTotalMonthly_activeOnly(subscriptions) ==
    LET fold[i \in 0..Len(subscriptions)] ==
            IF i = 0 THEN Int2Num(0)
            ELSE IF subscriptions[i].is_active
            THEN Plus(fold[i - 1], OrZero(subscriptions[i].amount_jpy_monthly))
            ELSE fold[i - 1]
    IN  fold[Len(subscriptions)]

\* Variant: the reduction starts from the first amount and has no initial value
\* to return for the empty list.
getTotalMonthly_noInitial(subscriptions) ==
    LET fold[i \in 0..Len(subscriptions)] ==
            IF i = 0 THEN UndefinedNum
            ELSE IF i = 1 THEN OrZero(subscriptions[i].amount_jpy_monthly)
            ELSE Plus(fold[i - 1], OrZero(subscriptions[i].amount_jpy_monthly))
    IN  fold[Len(subscriptions)]

getTotalMonthly(subscriptions) ==
    LET fold[i \in 0..Len(subscriptions)] ==
            IF i = 0 THEN Int2Num(0)
            ELSE Plus(fold[i - 1], OrZero(subscriptions[i].amount_jpy_monthly))
    IN  fold[Len(subscriptions)]

getTotalYearly(subscriptions) ==
    LET fold[i \in 0..Len(subscriptions)] ==
            IF i = 0 THEN Int2Num(0)
            ELSE Plus(fold[i - 1], OrZero(subscriptions[i].amount_jpy_yearly))
    IN  fold[Len(subscriptions)]

\* The body of the forEach of getCategoryBreakdown.
addToBreakdown(breakdown, sub) ==
    LET category == IF sub.category \in {"", Undefined}
                    THEN CategoryOther ELSE sub.category
        started == IF Falsy(getProperty(breakdown, category))
                   THEN setProperty(breakdown, category, Int2Num(0))
                   ELSE breakdown
    IN  setProperty(started, category,
                    Plus(getProperty(started, category),
                         OrZero(sub.amount_jpy_monthly)))

getCategoryBreakdown(subscriptions) ==
    LET fold[i \in 0..Len(subscriptions)] ==
            IF i = 0 THEN <<>> ELSE addToBreakdown(fold[i - 1], subscriptions[i])
    IN  fold[Len(subscriptions)]

(***************************************************************************)
(* State                                                                   *)
(***************************************************************************)

VARIABLES
    currentUser,    \* firebaseAuth.currentUser: NoUser or a user id
    localSubs,      \* localStorage subscman_subscriptions, as the parsed list
    localSettings,  \* localStorage subscman_settings
    cloudSubs,      \* per user, the documents of users/{uid}/subscriptions
    cloudSettings,  \* per user, the settings of users/{uid}: <<>> or <<settings>>
    pending,        \* batches of uploadLocalDataToFirestore awaiting their commit
    nextId,         \* the ids handed out so far (generateId and Firestore ids)
    rateHistory,    \* every usd_to_jpy_rate that has been stored in a setting
    steps,          \* the number of handler runs and completions so far
    args,           \* the arguments of a direct call of the calculator
    ret             \* the last call: its name, its arguments and its outcome

storeVars == <<currentUser, localSubs, localSettings, cloudSubs, cloudSettings,
               pending, nextId, rateHistory, steps>>
vars == <<storeVars, args, ret>>

NoUser == "none"
Users == {"u1"}

MaxIds == 3
MaxPending == 2
MaxSteps == 5

(***************************************************************************)
(* SubscManStorage.  The operators take the stores as a record db and      *)
(* return the stores after the call, with the value the call resolves to.  *)
(* A read or write of the cloud store succeeds or throws (readOk,          *)
(* writeOk).  The dates, the memo and the timestamps of a record are       *)
(* display-only and left out.                                              *)
(***************************************************************************)

DefaultRate == 150

getDefaultSettings == [usd_to_jpy_rate |-> Int2Num(DefaultRate)]

\* JSON.parse(JSON.stringify(x)) of a number: NaN is written as null.
JSONNumber(x) == IF isNaN(x) THEN Null ELSE x

JSONSubscription(sub) ==
    [sub EXCEPT !.amount_original = JSONNumber(@),
                !.amount_jpy_monthly = JSONNumber(@),
                !.amount_jpy_yearly = JSONNumber(@)]

JSONSettings(settings) == [settings EXCEPT !.usd_to_jpy_rate = JSONNumber(@)]

\* { ...rec, ...data }
Merge(rec, data) ==
    [f \in DOMAIN rec \cup DOMAIN data |->
        IF f \in DOMAIN data THEN data[f] ELSE rec[f]]

Store ==
    [localSubs |-> localSubs, localSettings |-> localSettings,
     cloudSubs |-> cloudSubs, cloudSettings |-> cloudSettings, nextId |-> nextId]

useFirestore(uid) == uid # NoUser

getSubscriptionsLocal(db, activeOnly) ==
    IF activeOnly THEN SelectSeq(db.localSubs, LAMBDA sub : sub.is_active)
    ELSE db.localSubs

\* snapshot.docs: the documents of a query in the order of their ids.
RECURSIVE docsOf(_)
docsOf(docs) ==
    IF docs = {} THEN <<>>
    ELSE LET first == CHOOSE doc \in docs : \A other \in docs : doc.id <= other.id
         IN  <<first>> \o docsOf(docs \ {first})

\* Variant: the fallback after a failed read returns the whole local list.
getSubscriptions_fallbackAll(db, uid, activeOnly, readOk) ==
    IF useFirestore(uid) /\ readOk
    THEN docsOf({ doc \in db.cloudSubs[uid] : activeOnly => doc.is_active = TRUE })
    ELSE IF useFirestore(uid) THEN getSubscriptionsLocal(db, FALSE)
    ELSE getSubscriptionsLocal(db, activeOnly)

getSubscriptions(db, uid, activeOnly, readOk) ==
    IF useFirestore(uid) /\ readOk
    THEN docsOf({ doc \in db.cloudSubs[uid] : activeOnly => doc.is_active = TRUE })
    ELSE getSubscriptionsLocal(db, activeOnly)

getSettingsLocal(db) == db.localSettings

getSettings(db, uid, readOk) ==
    IF useFirestore(uid) /\ readOk /\ db.cloudSettings[uid] # <<>>
    THEN db.cloudSettings[uid][1]
    ELSE getSettingsLocal(db)

\* Variant: after the rate is stored, the cached amounts of every record are
\* recomputed with it.
updateExchangeRate_recompute(db, uid, rate, readOk, writeOk) ==
    LET r == parseFloat(rate)
        settings == [getSettings(db, uid, readOk) EXCEPT !.usd_to_jpy_rate = r]
        written == IF useFirestore(uid) /\ writeOk
                   THEN [db EXCEPT !.cloudSettings[uid] = <<settings>>]
                   ELSE db
        redo(sub) == Merge(sub, calculateAmounts(sub, r))
    IN  [db |-> [written EXCEPT
                    !.localSettings = JSONSettings(settings),
                    !.localSubs = [i \in DOMAIN @ |-> redo(@[i])],
                    !.cloudSubs = [u \in Users |-> { redo(sub) : sub \in @[u] }]],
         value |-> settings]

updateExchangeRate(db, uid, rate, readOk, writeOk) ==
    LET settings == [getSettings(db, uid, readOk) EXCEPT
                        !.usd_to_jpy_rate = parseFloat(rate)]
        written == IF useFirestore(uid) /\ writeOk
                   THEN [db EXCEPT !.cloudSettings[uid] = <<settings>>]
                   ELSE db
    IN  [db |-> [written EXCEPT !.localSettings = JSONSettings(settings)],
         value |-> settings]

addSubscriptionLocal(db, data) ==
    LET newSubscription == Merge([id |-> db.nextId], data)
    IN  [db |-> [db EXCEPT !.localSubs = Append(@, JSONSubscription(newSubscription)),
                           !.nextId = @ + 1],
         value |-> newSubscription]

\* created_at, the moment of the creation, is the number of the creation: the
\* value of the id counter when the record is created.
addSubscription(db, uid, data, writeOk) ==
    LET newSubscription ==
            [service_name |-> data.service_name,
             amount_original |-> parseFloat(data.amount_original),
             currency |-> data.currency,
             amount_jpy_monthly |-> data.amount_jpy_monthly,
             amount_jpy_yearly |-> data.amount_jpy_yearly,
             billing_cycle |-> IF data.billing_cycle \in {"", Undefined}
                               THEN CycleMonthly ELSE data.billing_cycle,
             category |-> IF data.category \in {"", Undefined}
                          THEN CategoryOther ELSE data.category,
             is_active |-> TRUE,
             created_at |-> db.nextId]
    IN  IF useFirestore(uid) /\ writeOk
        THEN LET doc == Merge([id |-> db.nextId], newSubscription)
             IN  [db |-> [db EXCEPT !.cloudSubs[uid] = @ \cup {doc},
                                    !.nextId = @ + 1],
                  value |-> doc]
        ELSE addSubscriptionLocal(db, newSubscription)

\* Variant: the record is replaced by the data, under its id.
updateSubscriptionLocal_replace(db, id, data) ==
    LET subscriptions == getSubscriptionsLocal(db, FALSE)
        hits == { i \in DOMAIN subscriptions : subscriptions[i].id = id }
    IN  IF hits = {} THEN [db |-> db, value |-> <<>>]
        ELSE LET index == CHOOSE i \in hits : \A j \in hits : i <= j
                 merged == Merge([id |-> id], data)
             IN  [db |-> [db EXCEPT !.localSubs =
                                        [subscriptions EXCEPT ![index] = merged]],
                  value |-> <<merged>>]

\* The value is <<>> for null and <<record>> for a record.
updateSubscriptionLocal(db, id, data) ==
    LET subscriptions == getSubscriptionsLocal(db, FALSE)
        hits == { i \in DOMAIN subscriptions : subscriptions[i].id = id }
    IN  IF hits = {} THEN [db |-> db, value |-> <<>>]
        ELSE LET index == CHOOSE i \in hits : \A j \in hits : i <= j
                 merged == JSONSubscription(Merge(subscriptions[index], data))
             IN  [db |-> [db EXCEPT !.localSubs =
                                        [subscriptions EXCEPT ![index] = merged]],
                  value |-> <<merged>>]

\* doc(id).update(data) rejects when the user has no document with that id.
updateSubscription(db, uid, id, data, writeOk) ==
    IF useFirestore(uid) /\ writeOk /\ \E doc \in db.cloudSubs[uid] : doc.id = id
    THEN [db |-> [db EXCEPT !.cloudSubs[uid] =
                     { IF doc.id = id THEN Merge(doc, data) ELSE doc : doc \in @ }],
          value |-> <<Merge([id |-> id], data)>>]
    ELSE updateSubscriptionLocal(db, id, data)

deleteSubscriptionLocal(db, id) ==
    LET subscriptions == getSubscriptionsLocal(db, FALSE)
        filtered == SelectSeq(subscriptions, LAMBDA sub : sub.id # id)
    IN  IF Len(filtered) = Len(subscriptions) THEN [db |-> db, value |-> FALSE]
        ELSE [db |-> [db EXCEPT !.localSubs = filtered], value |-> TRUE]

\* doc(id).delete() resolves also when there is no such document.
deleteSubscription(db, uid, id, writeOk) ==
    IF useFirestore(uid) /\ writeOk
    THEN [db |-> [db EXCEPT !.cloudSubs[uid] = { doc \in @ : doc.id # id }],
          value |-> TRUE]
    ELSE deleteSubscriptionLocal(db, id)

\* The batch uploadLocalDataToFirestore builds before it awaits the commit:
\* one new document per local record, the record without its id.
uploadBatch(db, uid) ==
    LET localSubs_ == getSubscriptionsLocal(db, FALSE)
    IN  [uid |-> uid,
         docs |-> [i \in DOMAIN localSubs_ |->
                     [localSubs_[i] EXCEPT !.id = db.nextId + i - 1]]]

\* batch.commit() resolved: the documents are written and the local list is
\* removed; or it rejected, and nothing is changed.
uploadCommitted(db, batch, ok) ==
    IF ok
    THEN [db |-> [db EXCEPT
                    !.cloudSubs[batch.uid] =
                        @ \cup { batch.docs[i] : i \in DOMAIN batch.docs },
                    !.localSubs = <<>>],
          value |-> TRUE]
    ELSE [db |-> db, value |-> FALSE]

SampleSubscriptions ==
    << [service_name |-> <<"N">>, amount_original |-> Int2Num(1490),
        currency |-> "JPY", billing_cycle |-> CycleMonthly, category |-> "Ent"],
       [service_name |-> <<"S">>, amount_original |-> Int2Num(980),
        currency |-> "JPY", billing_cycle |-> CycleMonthly, category |-> "Ent"],
       [service_name |-> <<"C">>, amount_original |-> Int2Num(20),
        currency |-> "USD", billing_cycle |-> CycleMonthly, category |-> "AI"] >>

RECURSIVE loadSampleFrom(_, _, _, _, _)
loadSampleFrom(db, uid, rate, i, writeOks) ==
    IF i > Len(SampleSubscriptions) THEN db
    ELSE LET sub == SampleSubscriptions[i]
             amounts == calculateAmounts(sub, rate)
         IN  loadSampleFrom(addSubscription(db, uid, Merge(sub, amounts),
                                            writeOks[i]).db,
                            uid, rate, i + 1, writeOks)

loadSampleData(db, uid, readOk, writeOks) ==
    LET settings == getSettings(db, uid, readOk)
    IN  [db |-> loadSampleFrom(db, uid, settings.usd_to_jpy_rate, 1, writeOks),
         value |-> Undefined]

(***************************************************************************)
(* SubscManUI: the form and the exchange-rate handlers                     *)
(***************************************************************************)

NoId == 0

RECURSIVE TrimRight(_)
TrimRight(s) ==
    IF s # <<>> /\ s[Len(s)] = " " THEN TrimRight(SubSeq(s, 1, Len(s) - 1)) ELSE s

trim(s) == TrimRight(TrimLeft(s))

\* What is typed into the subscription form.
Forms ==
    { [service_name |-> <<"A", " ">>, amount_original |-> <<"9", ".", "9", "9">>,
       currency |-> "USD", billing_cycle |-> CycleMonthly, category |-> ""],
      [service_name |-> <<"N">>, amount_original |-> <<"1", "2", "9", "8", "4">>,
       currency |-> "JPY", billing_cycle |-> CycleYearly, category |-> "Ent"],
      [service_name |-> <<" ">>, amount_original |-> <<"2", "0">>,
       currency |-> "JPY", billing_cycle |-> CycleMonthly, category |-> "AI"],
      [service_name |-> <<"N">>, amount_original |-> <<"a", "b", "c">>,
       currency |-> "JPY", billing_cycle |-> CycleMonthly, category |-> "AI"],
      [service_name |-> <<"N">>, amount_original |-> <<"-", "5">>,
       currency |-> "USD", billing_cycle |-> CycleOther, category |-> "AI"],
      [service_name |-> <<"N">>, amount_original |-> <<"0">>,
       currency |-> "JPY", billing_cycle |-> CycleMonthly, category |-> "AI"] }

\* What is typed into the rate field.
RateTexts == { <<"1", "5", "5", ".", "5">>, <<"0">>, <<"-", "1">>, <<"x">>, <<>> }

\* What the rate service answers.
FetchResponses ==
    { [ok |-> FALSE, JPY |-> <<>>], [ok |-> TRUE, JPY |-> <<>>],
      [ok |-> TRUE, JPY |-> <<Int2Num(0)>>], [ok |-> TRUE, JPY |-> <<Rat(311, 2)>>] }

\* The data object handleFormSubmit reads from the form fields.
formData(form) ==
    [service_name |-> trim(form.service_name),
     amount_original |-> parseFloat(Str(form.amount_original)),
     currency |-> form.currency,
     billing_cycle |-> form.billing_cycle,
     category |-> form.category]

\* The validation of handleFormSubmit: what it rejects the data for, or "ok".
validateForm(data) ==
    IF data.service_name = <<>> THEN "no name"
    ELSE IF isNaN(data.amount_original) \/ NumLeqZero(data.amount_original)
    THEN "no amount"
    ELSE "ok"

\* formData and the validation of every form, computed once.
FormData == [form \in Forms |-> formData(form)]
FormVerdict == [form \in Forms |-> validateForm(FormData[form])]

\* Variant: an edit stores the edited fields and keeps the cached amounts.
handleFormSubmit_keepAmounts(db, uid, form, editId, readOk, writeOk) ==
    LET data == FormData[form]
        settings == getSettings(db, uid, readOk)
        amounts == calculateAmounts(data, settings.usd_to_jpy_rate)
    IN  IF FormVerdict[form] # "ok"
        THEN [db |-> db, value |-> FormVerdict[form], calculated |-> FALSE]
        ELSE IF editId # NoId
        THEN [db |-> updateSubscription(db, uid, editId, data, writeOk).db,
              value |-> "updated", calculated |-> TRUE]
        ELSE [db |-> addSubscription(db, uid, Merge(data, amounts), writeOk).db,
              value |-> "added", calculated |-> TRUE]

\* Variant: the data of the form is stored without being validated.
handleFormSubmit_noValidation(db, uid, form, editId, readOk, writeOk) ==
    LET data == FormData[form]
        settings == getSettings(db, uid, readOk)
        amounts == calculateAmounts(data, settings.usd_to_jpy_rate)
        full == Merge(data, amounts)
    IN  IF editId # NoId
        THEN [db |-> updateSubscription(db, uid, editId, full, writeOk).db,
              value |-> "updated", calculated |-> TRUE]
        ELSE [db |-> addSubscription(db, uid, full, writeOk).db,
              value |-> "added", calculated |-> TRUE]

\* calculated: whether calculator.calculateAmounts was called.
handleFormSubmit(db, uid, form, editId, readOk, writeOk) ==
    LET data == FormData[form]
        settings == getSettings(db, uid, readOk)
        amounts == calculateAmounts(data, settings.usd_to_jpy_rate)
        full == Merge(data, amounts)
    IN  IF FormVerdict[form] # "ok"
        THEN [db |-> db, value |-> FormVerdict[form], calculated |-> FALSE]
        ELSE IF editId # NoId
        THEN [db |-> updateSubscription(db, uid, editId, full, writeOk).db,
              value |-> "updated", calculated |-> TRUE]
        ELSE [db |-> addSubscription(db, uid, full, writeOk).db,
              value |-> "added", calculated |-> TRUE]

\* updateFormPreview: the amounts shown under the form while it is edited,
\* for the text of the amount field and the stored rate.
updateFormPreview(text, currency, billingCycle, rate) ==
    LET amountOriginal == OrZero(parseFloat(Str(text)))
    IN  calculateAmounts([amount_original |-> amountOriginal,
                          currency |-> currency,
                          billing_cycle |-> billingCycle], rate)

handleDelete(db, uid, id, writeOk) ==
    LET result == deleteSubscription(db, uid, id, writeOk)
    IN  [db |-> result.db, value |-> IF result.value THEN "deleted" ELSE "failed"]

\* The validation of saveExchangeRate.
rateRejected(newRate) == isNaN(newRate) \/ NumLeqZero(newRate)

\* The number read from every rate text, computed once.
\* A second rate the user may type, for the application with two valid rates.
OtherRateText == <<"1", "6", "0">>

RateOfText == [text \in RateTexts \cup {OtherRateText} |-> parseFloat(Str(text))]

saveExchangeRate(db, uid, text, readOk, writeOk) ==
    LET newRate == RateOfText[text]
    IN  IF rateRejected(newRate)
        THEN [db |-> db, value |-> "no rate", rate |-> <<>>]
        ELSE [db |-> updateExchangeRate(db, uid, newRate, readOk, writeOk).db,
              value |-> "saved", rate |-> <<newRate>>]

\* response: whether the request succeeded with an OK status, and rates.JPY
\* of its body, <<>> when absent.  fetchExchangeRate throws, and catches, when
\* the response is not OK or the rate is falsy.
fetchFailed(response) ==
    ~response.ok \/ response.JPY = <<>> \/ NumFalsy(response.JPY[1])

fetchExchangeRate(db, uid, response, readOk, writeOk) ==
    IF fetchFailed(response) THEN [db |-> db, value |-> "failed", rate |-> <<>>]
    ELSE [db |-> updateExchangeRate(db, uid, response.JPY[1], readOk, writeOk).db,
          value |-> "fetched", rate |-> <<response.JPY[1]>>]

(***************************************************************************)
(* The application: user actions and completions                           *)
(***************************************************************************)

StoredRates(db) ==
    { db.localSettings.usd_to_jpy_rate }
        \cup { db.cloudSettings[u][1].usd_to_jpy_rate :
                 u \in { v \in Users : db.cloudSettings[v] # <<>> } }

\* The stores become db; every rate stored by the step is remembered.
SetStore(db) ==
    /\ localSubs' = db.localSubs
    /\ localSettings' = db.localSettings
    /\ cloudSubs' = db.cloudSubs
    /\ cloudSettings' = db.cloudSettings
    /\ nextId' = db.nextId
    /\ rateHistory' = rateHistory \cup StoredRates(db)

Init ==
    /\ currentUser = NoUser
    /\ localSubs = <<>>
    /\ localSettings = JSONSettings(getDefaultSettings)
    /\ cloudSubs = [u \in Users |-> {}]
    /\ cloudSettings = [u \in Users |-> <<>>]
    /\ pending = <<>>
    /\ nextId = 1
    /\ rateHistory = { getDefaultSettings.usd_to_jpy_rate }
    /\ steps = 0
    /\ args = [amount_original |-> Int2Num(0), currency |-> "JPY",
               billing_cycle |-> CycleMonthly, rate |-> Int2Num(DefaultRate)]
    /\ ret = [op |-> "none"]

\* The outcomes of a cloud request: none is made when nobody is signed in,
\* nor by a handler that returns before it reaches the storage (rejected).
CloudOutcomes == IF useFirestore(currentUser) THEN BOOLEAN ELSE {TRUE}
OutcomesUnless(rejected) == IF rejected THEN {TRUE} ELSE CloudOutcomes

\* One more handler run or completion.
Step == steps < MaxSteps /\ steps' = steps + 1

\* firebaseAuth.onAuthStateChanged fires with a user (sign-in) or with null
\* (sign-out); updateAuthUI then runs checkAndOfferSync, which, when there
\* are local records and the user confirms, starts the upload.
AuthStateChanged(user, confirm) ==
    /\ Step
    /\ user # currentUser
    /\ currentUser = NoUser \/ user = NoUser
    /\ currentUser' = user
    /\ IF user # NoUser /\ confirm
       THEN /\ Len(getSubscriptionsLocal(Store, FALSE)) > 0
            /\ Len(pending) < MaxPending
            /\ nextId + Len(localSubs) - 1 <= MaxIds
            /\ pending' = Append(pending, uploadBatch(Store, user))
            /\ nextId' = nextId + Len(localSubs)
       ELSE UNCHANGED <<pending, nextId>>
    /\ ret' = [op |-> "onAuthStateChanged"]
    /\ UNCHANGED <<localSubs, localSettings, cloudSubs, cloudSettings,
                   rateHistory, args>>

\* The commit of a pending batch resolves or rejects.
CommitUpload(i, ok) ==
    /\ Step
    /\ i \in DOMAIN pending
    /\ \E result \in { uploadCommitted(Store, pending[i], ok) } :
           /\ SetStore(result.db)
           /\ ret' = [op |-> "uploadLocalDataToFirestore", value |-> result.value]
    /\ pending' = SubSeq(pending, 1, i - 1) \o SubSeq(pending, i + 1, Len(pending))
    /\ UNCHANGED <<currentUser, args>>

HandleFormSubmit(form, editId, readOk, writeOk) ==
    /\ Step
    /\ editId = NoId => nextId <= MaxIds
    /\ \E result \in { handleFormSubmit(Store, currentUser, form, editId, readOk, writeOk) } :
           /\ SetStore(result.db)
           /\ ret' = [op |-> "handleFormSubmit", form |-> form,
                      value |-> result.value, calculated |-> result.calculated]
    /\ UNCHANGED <<currentUser, pending, args>>

LoadSampleData(readOk, writeOks) ==
    /\ Step
    /\ nextId + Len(SampleSubscriptions) - 1 <= MaxIds
    /\ \E result \in { loadSampleData(Store, currentUser, readOk, writeOks) } :
           /\ SetStore(result.db)
           /\ ret' = [op |-> "loadSampleData"]
    /\ UNCHANGED <<currentUser, pending, args>>

HandleDelete(id, writeOk) ==
    /\ Step
    /\ \E result \in { handleDelete(Store, currentUser, id, writeOk) } :
           /\ SetStore(result.db)
           /\ ret' = [op |-> "handleDelete", value |-> result.value]
    /\ UNCHANGED <<currentUser, pending, args>>

SaveExchangeRate(text, readOk, writeOk) ==
    /\ Step
    /\ \E result \in { saveExchangeRate(Store, currentUser, text, readOk, writeOk) } :
           /\ SetStore(result.db)
           /\ ret' = [op |-> "saveExchangeRate", value |-> result.value,
                      rate |-> result.rate]
    /\ UNCHANGED <<currentUser, pending, args>>

FetchExchangeRate(response, readOk, writeOk) ==
    /\ Step
    /\ \E result \in { fetchExchangeRate(Store, currentUser, response, readOk, writeOk) } :
           /\ SetStore(result.db)
           /\ ret' = [op |-> "fetchExchangeRate", value |-> result.value,
                      rate |-> result.rate]
    /\ UNCHANGED <<currentUser, pending, args>>

SignIn == \E user \in Users, confirm \in BOOLEAN : AuthStateChanged(user, confirm)
SignOut == AuthStateChanged(NoUser, FALSE)
Commit == \E i \in 1..MaxPending, ok \in BOOLEAN : CommitUpload(i, ok)
Submit ==
    \E form \in Forms, editId \in 0..MaxIds :
        /\ editId < nextId
        /\ \E readOk \in OutcomesUnless(FormVerdict[form] # "ok"),
              writeOk \in OutcomesUnless(FormVerdict[form] # "ok") :
               HandleFormSubmit(form, editId, readOk, writeOk)
Sample ==
    \E readOk \in CloudOutcomes,
       writeOks \in [1..Len(SampleSubscriptions) -> CloudOutcomes] :
        LoadSampleData(readOk, writeOks)
Delete ==
    \E id \in 1..MaxIds, writeOk \in CloudOutcomes :
        id < nextId /\ HandleDelete(id, writeOk)
SaveRate ==
    \E text \in RateTexts :
        \E readOk \in OutcomesUnless(rateRejected(RateOfText[text])),
           writeOk \in OutcomesUnless(rateRejected(RateOfText[text])) :
            SaveExchangeRate(text, readOk, writeOk)
FetchRate ==
    \E response \in FetchResponses :
        \E readOk \in OutcomesUnless(fetchFailed(response)),
           writeOk \in OutcomesUnless(fetchFailed(response)) :
            FetchExchangeRate(response, readOk, writeOk)

Next ==
    \/ SignIn
    \/ SignOut
    \/ Commit
    \/ Submit
    \/ Sample
    \/ Delete
    \/ SaveRate
    \/ FetchRate

Spec == Init /\ [][Next]_vars

\* The application when the rate service may also answer a negative rate.
AnyFetchResponses == FetchResponses \cup { [ok |-> TRUE, JPY |-> <<Int2Num(-150)>>] }

FetchAnyRate ==
    \E response \in AnyFetchResponses :
        \E readOk \in OutcomesUnless(fetchFailed(response)),
           writeOk \in OutcomesUnless(fetchFailed(response)) :
            FetchExchangeRate(response, readOk, writeOk)

NextAnyRate ==
    \/ SignIn
    \/ SignOut
    \/ Commit
    \/ Submit
    \/ Sample
    \/ Delete
    \/ SaveRate
    \/ FetchAnyRate

SpecAnyRate == Init /\ [][NextAnyRate]_vars

\* The application when the user types either of two valid rates.
SaveEitherRate ==
    \E text \in RateTexts \cup {OtherRateText} :
        \E readOk \in OutcomesUnless(rateRejected(RateOfText[text])),
           writeOk \in OutcomesUnless(rateRejected(RateOfText[text])) :
            SaveExchangeRate(text, readOk, writeOk)

NextTwoRates ==
    \/ SignIn
    \/ SignOut
    \/ Commit
    \/ Submit
    \/ Sample
    \/ Delete
    \/ SaveEitherRate
    \/ FetchRate

SpecTwoRates == Init /\ [][NextTwoRates]_vars

(***************************************************************************)
(* Direct calls of the calculator                                          *)
(***************************************************************************)

MaxHalves == 14

Half(i) == Rat(i, 2)

\* Texts as they are typed into the amount field.
AmountTexts ==
    { <<"2", "0">>, <<"9", ".", "9", "9">>, <<"1", "4", "9", "0">>,
      <<"1", "2", "9", "8", "4">>, <<"0">>, <<"-", "5">>, <<"a", "b", "c">>,
      <<>>, <<" ", "2", "0">>, <<"2", "0", "a">>, <<".", "5">>, <<"-">> }

\* Amounts as numbers: every multiple of 1/2 up to MaxHalves / 2 in absolute
\* value, the amounts of the sample data, and NaN.
AmountNumbers ==
    { Half(i) : i \in (0 - MaxHalves)..MaxHalves }
        \cup { Int2Num(1490), Int2Num(980), Int2Num(20), Int2Num(12984), NaN }

AmountInputs == { Str(s) : s \in AmountTexts } \cup AmountNumbers

CurrencyInputs == {"JPY", "USD", "EUR", "usd", "", Undefined}

CycleInputs == {CycleMonthly, CycleYearly, CycleOther, "weekly", "", Undefined}

RateInputs == { Int2Num(150), Rat(311, 2), Rat(1, 4), Int2Num(0), Int2Num(-150), NaN }

CalcInit ==
    /\ currentUser = NoUser
    /\ localSubs = <<>>
    /\ localSettings = JSONSettings(getDefaultSettings)
    /\ cloudSubs = [u \in Users |-> {}]
    /\ cloudSettings = [u \in Users |-> <<>>]
    /\ pending = <<>>
    /\ nextId = 1
    /\ rateHistory = { getDefaultSettings.usd_to_jpy_rate }
    /\ steps = 0
    /\ args \in [amount_original : AmountInputs, currency : CurrencyInputs,
                 billing_cycle : CycleInputs, rate : RateInputs]
    /\ ret = [op |-> "none"]

\* calculator.convertToJPY(amount, currency, rate) on a number.
Call_convertToJPY ==
    /\ args.amount_original.t = "number"
    /\ ret' = [op |-> "convertToJPY", amount |-> args.amount_original,
               currency |-> args.currency, rate |-> args.rate,
               outcome |-> "returned",
               value |-> convertToJPY(args.amount_original, args.currency, args.rate)]
    /\ UNCHANGED <<storeVars, args>>

\* calculator.calculateMonthlyYearly(jpy, cycle), on a plain amount or on the
\* product of a conversion.
Call_calculateMonthlyYearly ==
    /\ args.amount_original.t = "number"
    /\ LET jpy == convertToJPY(args.amount_original, args.currency, args.rate)
       IN  ret' = [op |-> "calculateMonthlyYearly", jpy |-> jpy,
                   cycle |-> args.billing_cycle, outcome |-> "returned",
                   value |-> calculateMonthlyYearly(jpy, args.billing_cycle)]
    /\ UNCHANGED <<storeVars, args>>

\* calculateMonthlyYearly applied to the yearly figure of its own result.
Call_yearlyTwice ==
    /\ args.amount_original.t = "number"
    /\ LET jpy == convertToJPY(args.amount_original, args.currency, args.rate)
           first == calculateMonthlyYearly(jpy, CycleYearly)
       IN  ret' = [op |-> "yearlyTwice", jpy |-> jpy, outcome |-> "returned",
                   value |-> calculateMonthlyYearly(first.yearly, CycleYearly)]
    /\ UNCHANGED <<storeVars, args>>

\* calculator.calculateAmounts(data, rate): the function has no throw and no
\* validation, so every call returns a pair.
Call_calculateAmounts ==
    /\ LET data == [amount_original |-> args.amount_original,
                    currency |-> args.currency,
                    billing_cycle |-> args.billing_cycle]
       IN  ret' = [op |-> "calculateAmounts", data |-> data, rate |-> args.rate,
                   outcome |-> "returned",
                   value |-> calculateAmounts(data, args.rate)]
    /\ UNCHANGED <<storeVars, args>>

CalcNext ==
    \/ Call_convertToJPY
    \/ Call_calculateMonthlyYearly
    \/ Call_yearlyTwice
    \/ Call_calculateAmounts

SpecCalc == CalcInit /\ [][CalcNext]_vars

(***************************************************************************)
(* Direct calls of the aggregator, and the live preview of the form        *)
(***************************************************************************)

MaxRecords == 2

\* The cached amounts a record may carry: whole numbers of yen (positive,
\* zero or negative), NaN, null (a NaN that went through JSON), or nothing.
CachedInputs ==
    { [amount_jpy_monthly |-> Int2Num(3000), amount_jpy_yearly |-> Int2Num(36000)],
      [amount_jpy_monthly |-> Int2Num(1082), amount_jpy_yearly |-> Int2Num(12984)],
      [amount_jpy_monthly |-> Int2Num(0), amount_jpy_yearly |-> Int2Num(0)],
      [amount_jpy_monthly |-> Int2Num(-5), amount_jpy_yearly |-> Int2Num(-60)],
      [amount_jpy_monthly |-> NaN, amount_jpy_yearly |-> NaN],
      [amount_jpy_monthly |-> Null, amount_jpy_yearly |-> Null],
      [amount_jpy_monthly |-> UndefinedNum, amount_jpy_yearly |-> UndefinedNum] }

\* Categories: two of the select's options, the empty and the absent one, and
\* two free-form texts.
CategoryInputs == {"AI", "Ent", "", Undefined, "constructor", "__proto__"}

\* Active records of every category, and inactive ones of one category.
RecordInputs ==
    { Merge(cached, [category |-> category, is_active |-> TRUE]) :
        cached \in CachedInputs, category \in CategoryInputs }
    \cup { Merge(cached, [category |-> "AI", is_active |-> FALSE]) :
             cached \in CachedInputs }

ListInputs == UNION { [1..n -> RecordInputs] : n \in 0..MaxRecords }

\* The amount field, the two selects and the stored rate of a preview.
PreviewInputs ==
    [amount_original : AmountTexts, currency : {"JPY", "USD"},
     billing_cycle : {CycleMonthly, CycleYearly, CycleOther},
     rate : {Int2Num(150), Rat(311, 2)}]

ViewInit ==
    /\ currentUser = NoUser
    /\ localSubs = <<>>
    /\ localSettings = JSONSettings(getDefaultSettings)
    /\ cloudSubs = [u \in Users |-> {}]
    /\ cloudSettings = [u \in Users |-> <<>>]
    /\ pending = <<>>
    /\ nextId = 1
    /\ rateHistory = { getDefaultSettings.usd_to_jpy_rate }
    /\ steps = 0
    /\ \/ \E list \in ListInputs : args = [kind |-> "list", subscriptions |-> list]
       \/ \E form \in PreviewInputs : args = [kind |-> "form", form |-> form]
    /\ ret = [op |-> "none"]

\* The three functions have no throw, so every call returns.
Call_getTotalMonthly ==
    /\ args.kind = "list"
    /\ ret' = [op |-> "getTotalMonthly", subscriptions |-> args.subscriptions,
               outcome |-> "returned",
               value |-> getTotalMonthly(args.subscriptions)]
    /\ UNCHANGED <<storeVars, args>>

Call_getTotalYearly ==
    /\ args.kind = "list"
    /\ ret' = [op |-> "getTotalYearly", subscriptions |-> args.subscriptions,
               outcome |-> "returned",
               value |-> getTotalYearly(args.subscriptions)]
    /\ UNCHANGED <<storeVars, args>>

Call_getCategoryBreakdown ==
    /\ args.kind = "list"
    /\ ret' = [op |-> "getCategoryBreakdown", subscriptions |-> args.subscriptions,
               outcome |-> "returned",
               value |-> getCategoryBreakdown(args.subscriptions)]
    /\ UNCHANGED <<storeVars, args>>

Call_updateFormPreview ==
    /\ args.kind = "form"
    /\ ret' = [op |-> "updateFormPreview", form |-> args.form,
               outcome |-> "returned",
               value |-> updateFormPreview(args.form.amount_original,
                                           args.form.currency,
                                           args.form.billing_cycle, args.form.rate)]
    /\ UNCHANGED <<storeVars, args>>

ViewNext ==
    \/ Call_getTotalMonthly
    \/ Call_getTotalYearly
    \/ Call_getCategoryBreakdown
    \/ Call_updateFormPreview

SpecView == ViewInit /\ [][ViewNext]_vars

(***************************************************************************)
(* Direct calls of the storage                                             *)
(***************************************************************************)

MaxLocal == 2
MaxCloud == 2

\* A record as addSubscription writes it, active or deactivated since.
StoredRecord(id, active) ==
    [id |-> id, service_name |-> <<"N">>, amount_original |-> Int2Num(1490),
     currency |-> "JPY", amount_jpy_monthly |-> Int2Num(1490),
     amount_jpy_yearly |-> Int2Num(17880), billing_cycle |-> CycleMonthly,
     category |-> "Ent", is_active |-> active, created_at |-> id]

\* The lists localStorage may hold: records with different ids, in any order.
LocalLists ==
    { list \in UNION { [1..n -> { StoredRecord(id, active) :
                                     id \in 1..MaxLocal, active \in BOOLEAN }] :
                         n \in 0..MaxLocal } :
        \A i, j \in DOMAIN list : list[i].id = list[j].id => i = j }

\* The collections a user may have: documents with different ids.
CloudCollections ==
    { docs \in SUBSET { StoredRecord(id, active) :
                          id \in MaxLocal + 1..MaxLocal + MaxCloud,
                          active \in BOOLEAN } :
        \A doc, other \in docs : doc.id = other.id => doc = other }

\* The data of an update: what handleFormSubmit passes for an edit, and a
\* deactivation.
UpdateInputs ==
    { [service_name |-> <<"S">>, amount_original |-> Int2Num(980),
       currency |-> "JPY", billing_cycle |-> CycleYearly, category |-> "AI",
       amount_jpy_monthly |-> Int2Num(82), amount_jpy_yearly |-> Int2Num(980)],
      [is_active |-> FALSE] }

StorageInit ==
    /\ currentUser \in Users \cup {NoUser}
    /\ localSubs \in LocalLists
    /\ localSettings = JSONSettings(getDefaultSettings)
    /\ cloudSubs \in [Users -> CloudCollections]
    /\ cloudSettings = [u \in Users |-> <<>>]
    /\ pending = <<>>
    /\ nextId = MaxLocal + MaxCloud + 1
    /\ rateHistory = { getDefaultSettings.usd_to_jpy_rate }
    /\ steps = 0
    /\ args = [amount_original |-> Int2Num(0), currency |-> "JPY",
               billing_cycle |-> CycleMonthly, rate |-> Int2Num(DefaultRate)]
    /\ ret = [op |-> "none"]

\* storage.getSubscriptions(activeOnly) on the store; db is the store after
\* the call in every result.
Call_getSubscriptions(activeOnly, readOk) ==
    /\ ret' = [op |-> "getSubscriptions", activeOnly |-> activeOnly,
               readOk |-> readOk, db |-> Store,
               value |-> getSubscriptions(Store, currentUser, activeOnly, readOk)]
    /\ UNCHANGED <<storeVars, args>>

Call_updateSubscriptionLocal(id, data) ==
    /\ \E result \in { updateSubscriptionLocal(Store, id, data) } :
           ret' = [op |-> "updateSubscriptionLocal", id |-> id, data |-> data,
                   db |-> result.db, value |-> result.value]
    /\ UNCHANGED <<storeVars, args>>

Call_deleteSubscriptionLocal(id) ==
    /\ \E result \in { deleteSubscriptionLocal(Store, id) } :
           ret' = [op |-> "deleteSubscriptionLocal", id |-> id,
                   db |-> result.db, value |-> result.value]
    /\ UNCHANGED <<storeVars, args>>

ReadSubscriptions ==
    \E activeOnly \in BOOLEAN, readOk \in CloudOutcomes :
        Call_getSubscriptions(activeOnly, readOk)
UpdateLocal ==
    \E id \in 1..MaxLocal + 1, data \in UpdateInputs :
        Call_updateSubscriptionLocal(id, data)
DeleteLocal == \E id \in 1..MaxLocal + 1 : Call_deleteSubscriptionLocal(id)

StorageNext ==
    \/ ReadSubscriptions
    \/ UpdateLocal
    \/ DeleteLocal

SpecStorage == StorageInit /\ [][StorageNext]_vars

\* The application opened on a browser whose localStorage has a record of an
\* earlier visit.
SyncInit ==
    /\ currentUser = NoUser
    /\ localSubs = <<StoredRecord(1, TRUE)>>
    /\ localSettings = JSONSettings(getDefaultSettings)
    /\ cloudSubs = [u \in Users |-> {}]
    /\ cloudSettings = [u \in Users |-> <<>>]
    /\ pending = <<>>
    /\ nextId = 2
    /\ rateHistory = { getDefaultSettings.usd_to_jpy_rate }
    /\ steps = 0
    /\ args = [amount_original |-> Int2Num(0), currency |-> "JPY",
               billing_cycle |-> CycleMonthly, rate |-> Int2Num(DefaultRate)]
    /\ ret = [op |-> "none"]

\* The handlers of a session in which the sample data are not loaded.
SyncNext ==
    \/ SignIn
    \/ SignOut
    \/ Commit
    \/ Submit
    \/ Delete
    \/ SaveRate
    \/ FetchRate

SpecSync == SyncInit /\ [][SyncNext]_vars

(***************************************************************************)
(* The advisor                                                             *)
(***************************************************************************)

\* What a call of the async storage.getSubscriptions evaluates to when it is
\* not awaited: a promise of the list, which has no length and no reduce.
PromiseOf(list) == [t |-> "promise", settled |-> list]

TypeError == [outcome |-> "thrown", value |-> [kind |-> "TypeError"]]

\* The text of the local advisor, by what it is computed from.
getLocalAdvice(db, uid, readOk) ==
    LET subscriptions == PromiseOf(getSubscriptions(db, uid, TRUE, readOk))
    IN  IF subscriptions.t = "array" /\ Len(subscriptions.items) = 0
        THEN [outcome |-> "returned", value |-> [kind |-> "nothing registered"]]
        ELSE IF subscriptions.t # "array" THEN TypeError
        ELSE [outcome |-> "returned",
              value |-> [kind |-> "local advice",
                         totalMonthly |-> getTotalMonthly(subscriptions.items),
                         totalYearly |-> getTotalYearly(subscriptions.items),
                         breakdown |-> getCategoryBreakdown(subscriptions.items)]]

generateSubscriptionsSummary(subscriptions) ==
    IF subscriptions.t = "array" /\ Len(subscriptions.items) = 0
    THEN [outcome |-> "returned", value |-> [kind |-> "no subscriptions"]]
    ELSE IF subscriptions.t # "array" THEN TypeError
    ELSE [outcome |-> "returned",
          value |-> [kind |-> "summary",
                     totalMonthly |-> getTotalMonthly(subscriptions.items),
                     totalYearly |-> getTotalYearly(subscriptions.items)]]

\* What the request to the remote service comes to.
AdviceResponses == {"fetch throws", "not ok", "no candidate", "candidate"}
ApiKeys == { <<>>, <<" ">>, <<"k">> }

\* An async function resolves with what its body returns and rejects with
\* what it throws.
Settled(completion) ==
    [outcome |-> IF completion.outcome = "returned" THEN "resolved" ELSE "rejected",
     value |-> completion.value]

\* The note appended to the local text after a failed request is left out.
getAdvice(db, uid, apiKey, response, readOk) ==
    IF apiKey = <<>> \/ trim(apiKey) = <<>>
    THEN Settled(getLocalAdvice(db, uid, readOk))
    ELSE LET subscriptions == PromiseOf(getSubscriptions(db, uid, TRUE, readOk))
             summary == generateSubscriptionsSummary(subscriptions)
         IN  IF summary.outcome = "thrown" THEN Settled(summary)
             ELSE IF response = "candidate"
             THEN [outcome |-> "resolved", value |-> [kind |-> "remote advice"]]
             ELSE Settled(getLocalAdvice(db, uid, readOk))

Call_getAdvice(apiKey, response, readOk) ==
    /\ \E result \in { getAdvice(Store, currentUser, apiKey, response, readOk) } :
           ret' = [op |-> "getAdvice", apiKey |-> apiKey, response |-> response,
                   readOk |-> readOk, outcome |-> result.outcome,
                   value |-> result.value]
    /\ UNCHANGED <<storeVars, args>>

AdviceNext ==
    \E apiKey \in ApiKeys, response \in AdviceResponses, readOk \in CloudOutcomes :
        Call_getAdvice(apiKey, response, readOk)

SpecAdvice == StorageInit /\ [][AdviceNext]_vars

(***************************************************************************)
(* Properties of the stored records                                        *)
(***************************************************************************)

\* Every record of the local list and of every user's cloud collection.
AllStored ==
    { localSubs[i] : i \in DOMAIN localSubs } \cup UNION { cloudSubs[u] : u \in Users }

\* The cached pair of sub is what calculateAmounts gives for its own
\* amount_original, currency and billing_cycle at rate r.
CachedAt(sub, r) ==
    [amount_jpy_monthly |-> sub.amount_jpy_monthly,
     amount_jpy_yearly |-> sub.amount_jpy_yearly]
        = calculateAmounts([amount_original |-> sub.amount_original,
                            currency |-> sub.currency,
                            billing_cycle |-> sub.billing_cycle], r)

\* C1: after any sequence of creates, edits, sample loads, rate changes and
\* uploads, the cached amounts of every stored record are calculateAmounts of
\* the record's own amount_original, currency and billing_cycle at a rate that
\* was the stored usd_to_jpy_rate at some earlier point.
C1_CachedAmountsFollowInputs ==
    \A sub \in AllStored : \E r \in rateHistory : CachedAt(sub, r)

\* An edit, made after the rate was changed to 155.5, of the only record ever
\* created: it is now 9.99 USD a month, cached at the new rate.
C1_Witness ==
    /\ ret.op = "handleFormSubmit" /\ ret.value = "updated"
    /\ nextId = 2
    /\ rateHistory = { Int2Num(DefaultRate), Rat(311, 2) }
    /\ \E sub \in AllStored :
          /\ sub.id = 1 /\ sub.currency = "USD"
          /\ sub.amount_original = Rat(999, 100)
          /\ sub.amount_jpy_monthly = Int2Num(1553)
          /\ sub.amount_jpy_yearly = Int2Num(18641)

\* C2: a step of saveExchangeRate or fetchExchangeRate (both store the rate
\* through storage.updateExchangeRate) leaves every record of the local list
\* and of the cloud collections as it was.
C2_RateChangeKeepsRecords ==
    [][ret'.op \in {"saveExchangeRate", "fetchExchangeRate"}
         => localSubs' = localSubs /\ cloudSubs' = cloudSubs]_vars

\* A rate was saved while the local list and the user's cloud collection each
\* held a USD record cached at the previous rate: both caches are stale.
C2_Witness ==
    /\ ret.op = "saveExchangeRate" /\ ret.value = "saved"
    /\ currentUser # NoUser
    /\ cloudSettings[currentUser] = <<[usd_to_jpy_rate |-> Rat(311, 2)]>>
    /\ localSettings = [usd_to_jpy_rate |-> Rat(311, 2)]
    /\ \E sub \in cloudSubs[currentUser] :
          sub.currency = "USD" /\ sub.amount_jpy_monthly = Int2Num(1499)
    /\ \E i \in DOMAIN localSubs :
          localSubs[i].currency = "USD"
              /\ localSubs[i].amount_jpy_monthly = Int2Num(1499)

\* C18: in every reachable state the stored usd_to_jpy_rate, of the local
\* settings and of every user's cloud settings, is a strictly positive number.
C18_StoredRateIsPositive ==
    /\ NumGtZero(localSettings.usd_to_jpy_rate)
    /\ \A u \in Users :
          cloudSettings[u] # <<>> => NumGtZero(cloudSettings[u][1].usd_to_jpy_rate)

\* The fetched rate -150 was stored, and a form submitted afterwards was
\* converted with it: a USD record with a negative cached amount.
C18_Witness ==
    /\ localSettings.usd_to_jpy_rate = Int2Num(-150)
    /\ \E sub \in AllStored :
          /\ sub.currency = "USD"
          /\ sub.amount_original = Rat(999, 100)
          /\ sub.amount_jpy_monthly = Int2Num(-1498)

\* The forms that handleFormSubmit has to reject.
InvalidForms ==
    { form \in Forms :
        \/ trim(form.service_name) = <<>>
        \/ isNaN(parseFloat(Str(form.amount_original)))
        \/ NumLeqZero(parseFloat(Str(form.amount_original))) }

\* C19: a submit of a form with an empty (after trim) service name, or with
\* an amount that is not a number or is <= 0, leaves the local and the cloud
\* store as they were, and does not call calculateAmounts.
C19_InvalidFormChangesNothing ==
    [][ret'.op = "handleFormSubmit" /\ ret'.form \in InvalidForms
         => /\ ~ret'.calculated
            /\ UNCHANGED <<localSubs, localSettings, cloudSubs, cloudSettings>>]_vars

\* The form with the amount "abc" was submitted by a signed-in user while the
\* local list and the cloud collection each held a record.
C19_Witness ==
    /\ ret.op = "handleFormSubmit"
    /\ ret.form.amount_original = <<"a", "b", "c">>
    /\ ret.value = "no amount" /\ ~ret.calculated
    /\ currentUser # NoUser
    /\ Len(localSubs) = 1
    /\ Cardinality(cloudSubs[currentUser]) = 1

\* C20: every stored record is held under the id it was created with (the
\* number of its creation, kept in created_at).
C20_IdIsCreationId ==
    \A sub \in AllStored : sub.id = sub.created_at

\* The first record, created locally with id 1, is in the cloud collection
\* under the id 2 after the upload, and the local list is empty.
C20_Witness ==
    /\ ret.op = "uploadLocalDataToFirestore" /\ ret.value = TRUE
    /\ localSubs = <<>>
    /\ currentUser # NoUser
    /\ \E sub \in cloudSubs[currentUser] : sub.created_at = 1 /\ sub.id = 2

(***************************************************************************)
(* Properties of the calculator                                            *)
(***************************************************************************)

\* k is an integer within 1/2 of x, the upper of the two when x is a tie.
NearestHalfUp(k, x) ==
    /\ ~isNaN(k) /\ k.d = 1
    /\ 2 * k.n * x.d - x.d <= 2 * x.n
    /\ 2 * x.n < 2 * k.n * x.d + x.d

\* k is an integer within 1/2 of x, the one farther from zero when x is a tie.
NearestHalfAway(k, x) ==
    /\ ~isNaN(k) /\ k.d = 1
    /\ IF x.n >= 0
       THEN 2 * k.n * x.d - x.d <= 2 * x.n /\ 2 * x.n < 2 * k.n * x.d + x.d
       ELSE 2 * k.n * x.d - x.d < 2 * x.n /\ 2 * x.n <= 2 * k.n * x.d + x.d

\* The unrounded monthly and yearly amounts of a finite jpy under a cycle.
UnroundedMonthly(jpy, cycle) ==
    IF cycle = CycleYearly THEN Rat(jpy.n, 12 * jpy.d) ELSE jpy
UnroundedYearly(jpy, cycle) ==
    IF cycle = CycleYearly THEN jpy ELSE Rat(12 * jpy.n, jpy.d)

Pair(m, y) == [amount_jpy_monthly |-> Int2Num(m), amount_jpy_yearly |-> Int2Num(y)]

\* C3: calculateAmounts(record, rate) is calculateMonthlyYearly applied to
\* convertToJPY of the parsed amount, returned as the pair of the two cached
\* fields; (1490, JPY, monthly, 150) gives (1490, 17880), (20, USD, monthly,
\* 150) gives (3000, 36000) and (12984, JPY, yearly, 150) gives (1082, 12984).
C3_CalculateAmountsComposes ==
    ret.op = "calculateAmounts" =>
        LET d == ret.data
            a == parseFloat(d.amount_original)
            my == calculateMonthlyYearly(convertToJPY(a, d.currency, ret.rate),
                                         d.billing_cycle)
        IN  /\ ret.outcome = "returned"
            /\ ret.value = [amount_jpy_monthly |-> my.monthly,
                            amount_jpy_yearly |-> my.yearly]
            /\ ret.rate = Int2Num(150) /\ d.billing_cycle = CycleMonthly
                 /\ d.currency = "JPY" /\ a = Int2Num(1490)
                 => ret.value = Pair(1490, 17880)
            /\ ret.rate = Int2Num(150) /\ d.billing_cycle = CycleMonthly
                 /\ d.currency = "USD" /\ a = Int2Num(20)
                 => ret.value = Pair(3000, 36000)
            /\ ret.rate = Int2Num(150) /\ d.billing_cycle = CycleYearly
                 /\ d.currency = "JPY" /\ a = Int2Num(12984)
                 => ret.value = Pair(1082, 12984)

C3_Witness ==
    /\ ret.op = "calculateAmounts"
    /\ ret.data = [amount_original |-> Str(<<"2", "0">>), currency |-> "USD",
                   billing_cycle |-> CycleMonthly]
    /\ ret.rate = Int2Num(150)
    /\ ret.value = Pair(3000, 36000)

\* C4: calculateAmounts signals InvalidAmount, and returns no pair, when
\* amount_original does not parse to a number or is not strictly positive.
C4_InvalidAmountRaised ==
    ret.op = "calculateAmounts" =>
        LET a == parseFloat(ret.data.amount_original)
        IN  (isNaN(a) \/ NumLeqZero(a)) => ret.outcome = "InvalidAmount"

\* calculateAmounts was given the text "abc" and returned the pair (NaN, NaN).
C4_Witness ==
    /\ ret.op = "calculateAmounts"
    /\ ret.data.amount_original = Str(<<"a", "b", "c">>)
    /\ ret.outcome = "returned"
    /\ ret.value = [amount_jpy_monthly |-> NaN, amount_jpy_yearly |-> NaN]

\* C5 as stated: each output of calculateMonthlyYearly is the integer nearest
\* to the unrounded value, exact ties rounded away from zero.
C5_RoundsHalfAwayFromZero ==
    ret.op = "calculateMonthlyYearly" /\ ~isNaN(ret.jpy) =>
        /\ NearestHalfAway(ret.value.monthly, UnroundedMonthly(ret.jpy, ret.cycle))
        /\ NearestHalfAway(ret.value.yearly, UnroundedYearly(ret.jpy, ret.cycle))

\* C5 amended: each output of calculateMonthlyYearly is the integer nearest to
\* the unrounded value (jpy, jpy * 12 or jpy / 12, the division not rounded
\* beforehand), exact ties rounded towards plus infinity.
C5_RoundsHalfUp ==
    ret.op = "calculateMonthlyYearly" /\ ~isNaN(ret.jpy) =>
        /\ NearestHalfUp(ret.value.monthly, UnroundedMonthly(ret.jpy, ret.cycle))
        /\ NearestHalfUp(ret.value.yearly, UnroundedYearly(ret.jpy, ret.cycle))

C5_Witness ==
    /\ ret.op = "calculateMonthlyYearly"
    /\ ret.jpy = Half(-1) /\ ret.cycle = CycleMonthly
    /\ ret.value = [monthly |-> Int2Num(0), yearly |-> Int2Num(-6)]

\* C6 as stated: for every positive jpy, also a fractional one, the yearly
\* figure of the monthly cycle is round(12 * the monthly figure).
C6_YearlyIsTwelveMonthly ==
    ret.op = "calculateMonthlyYearly" /\ ret.cycle = CycleMonthly
        /\ NumGtZero(ret.jpy)
        => ret.value.yearly = Math_round(NumMul(ret.value.monthly, Int2Num(12)))

\* C6 amended: for every positive integer jpy, the yearly figure of the
\* monthly cycle is round(12 * the monthly figure).
C6_YearlyIsTwelveMonthlyForIntegers ==
    ret.op = "calculateMonthlyYearly" /\ ret.cycle = CycleMonthly
        /\ NumGtZero(ret.jpy) /\ ret.jpy.d = 1
        => ret.value.yearly = Math_round(NumMul(ret.value.monthly, Int2Num(12)))

C6_Witness ==
    /\ ret.op = "calculateMonthlyYearly" /\ ret.cycle = CycleMonthly
    /\ ret.jpy = Int2Num(3000)
    /\ ret.value = [monthly |-> Int2Num(3000), yearly |-> Int2Num(36000)]

\* C7 as stated: for every jpy, the monthly figure of the yearly cycle applied
\* to the yearly figure of the yearly cycle is round(jpy / 12).
C7_YearlyRoundTrip ==
    ret.op = "yearlyTwice" =>
        ret.value.monthly = Math_round(NumDivInt(ret.jpy, 12))

\* C7 amended: the round trip holds for every integer jpy.
C7_YearlyRoundTripForIntegers ==
    ret.op = "yearlyTwice" /\ ~isNaN(ret.jpy) /\ ret.jpy.d = 1 =>
        ret.value.monthly = Math_round(NumDivInt(ret.jpy, 12))

C7_Witness ==
    /\ ret.op = "yearlyTwice" /\ ret.jpy = Int2Num(12984)
    /\ ret.value.monthly = Int2Num(1082)

\* C8: for positive amount and rate, convertToJPY(amount, USD, rate) is the
\* exact product amount * rate; nothing is rounded inside the converter.
C8_UsdIsExactProduct ==
    ret.op = "convertToJPY" /\ ret.currency = "USD"
        /\ NumGtZero(ret.amount) /\ NumGtZero(ret.rate)
        => /\ ~isNaN(ret.value)
           /\ ret.value.n * ret.amount.d * ret.rate.d
                = ret.amount.n * ret.rate.n * ret.value.d

C8_Witness ==
    /\ ret.op = "convertToJPY" /\ ret.currency = "USD"
    /\ ret.amount = Half(1) /\ ret.rate = Rat(311, 2)
    /\ ret.value = Rat(311, 4)

\* C9: for every currency other than USD and any rate, convertToJPY returns
\* the amount unchanged and raises no error.
C9_NonUsdPassesThrough ==
    ret.op = "convertToJPY" /\ ret.currency # "USD" =>
        ret.outcome = "returned" /\ ret.value = ret.amount

C9_Witness ==
    /\ ret.op = "convertToJPY" /\ ret.currency = "EUR"
    /\ ret.rate = Int2Num(-150) /\ ret.amount = Int2Num(20)
    /\ ret.value = Int2Num(20)

\* C10: for the monthly cycle calculateMonthlyYearly returns
\* monthly = round(jpy) and yearly = round(jpy * 12), for every jpy.
C10_MonthlyCycle ==
    ret.op = "calculateMonthlyYearly" /\ ret.cycle = CycleMonthly =>
        /\ ret.value.monthly = Math_round(ret.jpy)
        /\ ret.value.yearly = Math_round(NumMul(ret.jpy, Int2Num(12)))

C10_Witness ==
    /\ ret.op = "calculateMonthlyYearly" /\ ret.cycle = CycleMonthly
    /\ ret.jpy = Rat(311, 4)
    /\ ret.value = [monthly |-> Int2Num(78), yearly |-> Int2Num(933)]

\* C11: for the yearly cycle calculateMonthlyYearly returns
\* monthly = round(jpy / 12) and yearly = round(jpy), for every jpy.
C11_YearlyCycle ==
    ret.op = "calculateMonthlyYearly" /\ ret.cycle = CycleYearly =>
        /\ ret.value.monthly = Math_round(NumDivInt(ret.jpy, 12))
        /\ ret.value.yearly = Math_round(ret.jpy)

\* A yearly amount of 6, whose twelfth is the tie 0.5.
C11_Witness ==
    /\ ret.op = "calculateMonthlyYearly" /\ ret.cycle = CycleYearly
    /\ ret.jpy = Int2Num(6)
    /\ ret.value = [monthly |-> Int2Num(1), yearly |-> Int2Num(6)]

\* C12: for every jpy and every cycle that is neither the monthly nor the
\* yearly one (the other cycle, an unknown string, empty or missing),
\* calculateMonthlyYearly returns the pair of the monthly cycle, and no error.
C12_OtherCycleIsMonthly ==
    ret.op = "calculateMonthlyYearly" /\ ret.cycle \notin {CycleMonthly, CycleYearly}
        => /\ ret.outcome = "returned"
           /\ ret.value = calculateMonthlyYearly(ret.jpy, CycleMonthly)
           /\ ret.value = [monthly |-> Math_round(ret.jpy),
                           yearly |-> Math_round(NumMul(ret.jpy, Int2Num(12)))]

C12_Witness ==
    /\ ret.op = "calculateMonthlyYearly" /\ ret.cycle = "weekly"
    /\ ret.jpy = Rat(311, 4)
    /\ ret.value = [monthly |-> Int2Num(78), yearly |-> Int2Num(933)]

(***************************************************************************)
(* Properties of the aggregator                                            *)
(***************************************************************************)

\* The category a record is counted under.
CategoryOf(sub) ==
    IF sub.category \in {"", Undefined} THEN CategoryOther ELSE sub.category

\* v is a number that is not NaN.
IsFinite(v) == v.t = "number" /\ ~isNaN(v)

\* The exact sum of a sequence of finite numbers.
SumOf(numbers) ==
    LET fold[i \in 0..Len(numbers)] ==
            IF i = 0 THEN Int2Num(0) ELSE NumAdd(fold[i - 1], numbers[i])
    IN  fold[Len(numbers)]

MonthlyOf(subscriptions) ==
    [i \in DOMAIN subscriptions |-> subscriptions[i].amount_jpy_monthly]

YearlyOf(subscriptions) ==
    [i \in DOMAIN subscriptions |-> subscriptions[i].amount_jpy_yearly]

ValuesOf(breakdown) == [i \in DOMAIN breakdown |-> breakdown[i].value]

OfCategory(subscriptions, category) ==
    SelectSeq(subscriptions, LAMBDA sub : CategoryOf(sub) = category)

\* C13: for any list of records, the values of getCategoryBreakdown are
\* numbers whose sum is getTotalMonthly of the same list.
C13_BreakdownSumsToTotal ==
    ret.op = "getCategoryBreakdown" =>
        /\ \A i \in DOMAIN ret.value : IsFinite(ret.value[i].value)
        /\ SumOf(ValuesOf(ret.value)) = getTotalMonthly(ret.subscriptions)

\* One record of 3000 under the free-form category 'constructor': the only
\* value of the breakdown is a text, while the total is 3000.
C13_Witness ==
    /\ ret.op = "getCategoryBreakdown"
    /\ Len(ret.subscriptions) = 1
    /\ ret.subscriptions[1].category = "constructor"
    /\ ret.subscriptions[1].amount_jpy_monthly = Int2Num(3000)
    /\ getTotalMonthly(ret.subscriptions) = Int2Num(3000)
    /\ ret.value = <<[key |-> "constructor",
                      value |-> Str(ObjectConstructorText \o <<"3", "0", "0", "0">>)]>>

\* The sums agree whenever no category is a name that {} inherits.
BreakdownSumsToTotalForOwnKeys ==
    ret.op = "getCategoryBreakdown"
        /\ (\A i \in DOMAIN ret.subscriptions :
               ret.subscriptions[i].category \notin {"constructor", "__proto__"})
        => /\ \A i \in DOMAIN ret.value : IsFinite(ret.value[i].value)
           /\ SumOf(ValuesOf(ret.value)) = getTotalMonthly(ret.subscriptions)

\* The keys of a breakdown are the categories of the records, each once, and
\* each value is the sum of amount_jpy_monthly over the records of its key.
GroupsByCategory(breakdown, subscriptions) ==
    /\ { breakdown[i].key : i \in DOMAIN breakdown }
          = { CategoryOf(subscriptions[i]) : i \in DOMAIN subscriptions }
    /\ \A i, j \in DOMAIN breakdown : breakdown[i].key = breakdown[j].key => i = j
    /\ \A i \in DOMAIN breakdown :
          breakdown[i].value
              = SumOf(MonthlyOf(OfCategory(subscriptions, breakdown[i].key)))

\* C14: for records that carry numeric amounts, the keys of
\* getCategoryBreakdown are exactly the categories occurring in the records
\* (a missing or empty one counted as the default label) and each value is the
\* sum of amount_jpy_monthly over the records of that category.
C14_BreakdownGroupsByCategory ==
    ret.op = "getCategoryBreakdown"
        /\ (\A i \in DOMAIN ret.subscriptions :
               IsFinite(ret.subscriptions[i].amount_jpy_monthly))
        => GroupsByCategory(ret.value, ret.subscriptions)

\* A record of 3000 under 'AI' and one of 1082 under '__proto__': the
\* breakdown has the key 'AI' only.
C14_Witness ==
    /\ ret.op = "getCategoryBreakdown"
    /\ Len(ret.subscriptions) = 2
    /\ ret.subscriptions[1].category = "AI"
    /\ ret.subscriptions[1].amount_jpy_monthly = Int2Num(3000)
    /\ ret.subscriptions[2].category = "__proto__"
    /\ ret.subscriptions[2].amount_jpy_monthly = Int2Num(1082)
    /\ ret.value = <<[key |-> "AI", value |-> Int2Num(3000)]>>

\* The grouping is right whenever no category is a name that {} inherits; two
\* 'AI' records of 3000 give {AI: 6000}.
BreakdownGroupsByCategoryForOwnKeys ==
    ret.op = "getCategoryBreakdown"
        /\ (\A i \in DOMAIN ret.subscriptions :
               /\ IsFinite(ret.subscriptions[i].amount_jpy_monthly)
               /\ ret.subscriptions[i].category \notin {"constructor", "__proto__"})
        => /\ GroupsByCategory(ret.value, ret.subscriptions)
           /\ (Len(ret.subscriptions) = 2
                 /\ \A i \in 1..2 :
                       /\ ret.subscriptions[i].category = "AI"
                       /\ ret.subscriptions[i].amount_jpy_monthly = Int2Num(3000))
                => ret.value = <<[key |-> "AI", value |-> Int2Num(6000)]>>

BreakdownOfTwoAI ==
    /\ ret.op = "getCategoryBreakdown"
    /\ Len(ret.subscriptions) = 2
    /\ ret.value = <<[key |-> "AI", value |-> Int2Num(6000)]>>

C16_EmptyList ==
    ret.op \in {"getTotalMonthly", "getTotalYearly", "getCategoryBreakdown"}
        /\ ret.subscriptions = <<>>
        => /\ ret.outcome = "returned"
           /\ ret.op = "getCategoryBreakdown" => ret.value = <<>>
           /\ ret.op # "getCategoryBreakdown" => ret.value = Int2Num(0)

C16_Witness ==
    /\ ret.op = "getTotalMonthly"
    /\ ret.subscriptions = <<>>
    /\ ret.value = Int2Num(0)

\* C17: a record whose cached amount is missing or not a number is not
\* counted as 0 by the aggregator, and an unparseable amount is not turned
\* into 0 before calculateAmounts: the call ends in an error instead.
C17_NoDefaultNumber ==
    /\ ret.op \in {"getTotalMonthly", "getCategoryBreakdown"}
          /\ (\E i \in DOMAIN ret.subscriptions :
                 ~IsFinite(ret.subscriptions[i].amount_jpy_monthly))
          => ret.outcome = "error"
    /\ ret.op = "getTotalYearly"
          /\ (\E i \in DOMAIN ret.subscriptions :
                 ~IsFinite(ret.subscriptions[i].amount_jpy_yearly))
          => ret.outcome = "error"
    /\ ret.op = "updateFormPreview"
          /\ isNaN(parseFloat(Str(ret.form.amount_original)))
          => ret.outcome = "error"

\* A record without amount_jpy_monthly next to one of 3000: the total is 3000.
C17_Witness ==
    /\ ret.op = "getTotalMonthly"
    /\ Len(ret.subscriptions) = 2
    /\ ret.subscriptions[1].amount_jpy_monthly = UndefinedNum
    /\ ret.subscriptions[2].amount_jpy_monthly = Int2Num(3000)
    /\ ret.outcome = "returned"
    /\ ret.value = Int2Num(3000)

\* The preview of the text "abc" shows the amounts of 0.
PreviewOfUnparseable ==
    /\ ret.op = "updateFormPreview"
    /\ ret.form.amount_original = <<"a", "b", "c">>
    /\ ret.value = Pair(0, 0)

(***************************************************************************)
(* Properties of the exchange-rate setting                                 *)
(***************************************************************************)

\* The last step was an updateExchangeRate that completed.
RateUpdated == ret.op \in {"saveExchangeRate", "fetchExchangeRate"} /\ ret.rate # <<>>

\* C21: an updateExchangeRate of a signed-in user changes only that user's
\* setting and leaves the rate of the local store unchanged; one made while
\* signed out leaves the setting of every user in the cloud unchanged.
C21_RateIsPerScope ==
    [][RateUpdated' =>
          IF currentUser # NoUser
          THEN /\ localSettings' = localSettings
               /\ \A u \in Users \ {currentUser} : cloudSettings'[u] = cloudSettings[u]
          ELSE cloudSettings' = cloudSettings]_vars

\* A signed-in user has fetched a rate, and the local store holds it too.
C21_Witness ==
    /\ RateUpdated
    /\ ret.op = "fetchExchangeRate"
    /\ currentUser # NoUser
    /\ cloudSettings[currentUser] # <<>>
    /\ localSettings.usd_to_jpy_rate = ret.rate[1]
    /\ localSettings.usd_to_jpy_rate # Int2Num(DefaultRate)

\* C22: once updateExchangeRate(r) has completed, getSettings in the same
\* scope returns r, whether or not the cloud can be read.
C22_SettingsReadTheUpdate ==
    RateUpdated =>
        \A readOk \in CloudOutcomes :
            getSettings(Store, currentUser, readOk).usd_to_jpy_rate = ret.rate[1]

\* The setting of the signed-in user was not written to the cloud: the local
\* store has the new rate and the user's document another one.
C22_Witness ==
    /\ RateUpdated
    /\ currentUser # NoUser
    /\ cloudSettings[currentUser] # <<>>
    /\ localSettings.usd_to_jpy_rate = ret.rate[1]
    /\ cloudSettings[currentUser][1].usd_to_jpy_rate # ret.rate[1]

\* C24: as long as no settings are stored in the scope, getSettings reads the
\* default rate: in the local store until a rate is stored, and for a
\* signed-in user until the user's document has settings.
C24_DefaultRateOnFirstUse ==
    /\ rateHistory = {Int2Num(DefaultRate)} =>
           \A readOk \in CloudOutcomes :
               getSettings(Store, currentUser, readOk).usd_to_jpy_rate
                   = Int2Num(DefaultRate)
    /\ (currentUser # NoUser /\ cloudSettings[currentUser] = <<>>) =>
           \A readOk \in CloudOutcomes :
               getSettings(Store, currentUser, readOk).usd_to_jpy_rate
                   = Int2Num(DefaultRate)

\* A user without settings in the cloud is signed in after a rate was saved
\* while signed out.
C24_Witness ==
    /\ ret.op = "onAuthStateChanged"
    /\ currentUser # NoUser
    /\ cloudSettings[currentUser] = <<>>
    /\ localSettings.usd_to_jpy_rate # Int2Num(DefaultRate)

(***************************************************************************)
(* Properties of the storage                                               *)
(***************************************************************************)

\* C23: the list getSubscriptions returns for activeOnly = true has no record
\* whose is_active is false, from the local store, from the cloud, and from
\* the local store after a failed read of the cloud.
C23_ActiveOnlyHasNoInactive ==
    (ret.op = "getSubscriptions" /\ ret.activeOnly) =>
        \A i \in DOMAIN ret.value : ret.value[i].is_active # FALSE

\* The read of the cloud failed, the local list has an active and a
\* deactivated record, and the active one is returned.
C23_Witness ==
    /\ ret.op = "getSubscriptions"
    /\ ret.activeOnly
    /\ currentUser # NoUser
    /\ ~ret.readOk
    /\ \E i \in DOMAIN localSubs : ~localSubs[i].is_active
    /\ Len(ret.value) = 1

\* The records of a list whose id is not the given one, in their order.
Others(list, id) == SelectSeq(list, LAMBDA sub : sub.id # id)

HasId(list, id) == \E i \in DOMAIN list : list[i].id = id

Written(rec, data) ==
    /\ rec.service_name = data.service_name
    /\ rec.amount_original = data.amount_original
    /\ rec.currency = data.currency
    /\ rec.billing_cycle = data.billing_cycle
    /\ rec.category = IF data.category = "" THEN CategoryOther ELSE data.category

\* C26: after a submit that the UI reports as added or updated, the list of
\* getSubscriptions(false), read in the same sign-in state with the cloud
\* readable, has the record with the written values; a new record under the
\* id it was given.
C26_ReadYourWrites ==
    (ret.op = "handleFormSubmit" /\ ret.value \in {"added", "updated"}) =>
        LET list == getSubscriptions(Store, currentUser, FALSE, TRUE)
        IN  \E i \in DOMAIN list :
                /\ Written(list[i], FormData[ret.form])
                /\ ret.value = "added" => list[i].id = nextId - 1

\* A signed-in user has added a record, the write to the cloud failed, and
\* the record is in the local list.
C26_Witness ==
    /\ ret.op = "handleFormSubmit" /\ ret.value = "added"
    /\ currentUser # NoUser
    /\ cloudSubs[currentUser] = {}
    /\ Len(localSubs) = 1
    /\ localSubs[1].id = nextId - 1
    /\ Written(localSubs[1], FormData[ret.form])

\* C27: no user's collection has two documents for one local record, also
\* when an upload is started while the commit of an earlier one is pending.
\* A record is recognised by created_at, which the upload keeps.
C27_UploadedAtMostOnce ==
    \A u \in Users : \A doc, other \in cloudSubs[u] :
        doc.created_at = other.created_at => doc.id = other.id

\* Two uploads of the same local record to the same user are pending.
C27_Witness ==
    /\ Len(pending) = 2
    /\ pending[1].uid = pending[2].uid
    /\ pending[1].docs[1].created_at = pending[2].docs[1].created_at
    /\ pending[1].docs[1].id # pending[2].docs[1].id

\* C28: when the commit of uploadLocalDataToFirestore fails, false is
\* returned and the local list and the collections are unchanged; when it
\* succeeds, true is returned, the local list is emptied and one collection
\* has gained exactly one document per former local record, equal to it
\* apart from the id.
C28_UploadLosesNoRecord ==
    [][ret'.op = "uploadLocalDataToFirestore" =>
          IF ret'.value = FALSE
          THEN localSubs' = localSubs /\ cloudSubs' = cloudSubs
          ELSE /\ localSubs' = <<>>
               /\ \E u \in Users :
                     LET gained == cloudSubs'[u] \ cloudSubs[u]
                     IN  /\ \A v \in Users \ {u} : cloudSubs'[v] = cloudSubs[v]
                         /\ Cardinality(gained) = Len(localSubs)
                         /\ \A i \in DOMAIN localSubs : \E doc \in gained :
                               [doc EXCEPT !.id = localSubs[i].id] = localSubs[i]]_vars

\* Two records were created, the second during the upload of the first; the
\* commit succeeded, and one record is left in the stores.
C28_Witness ==
    /\ ret.op = "uploadLocalDataToFirestore" /\ ret.value = TRUE
    /\ steps = 4
    /\ nextId = 4
    /\ localSubs = <<>>
    /\ Cardinality(AllStored) = 1

(***************************************************************************)
(* Properties of the advisor                                               *)
(***************************************************************************)

\* The text of the local advisor for a list of active subscriptions.
LocalAdviceOf(list) ==
    IF Len(list) = 0 THEN [kind |-> "nothing registered"]
    ELSE [kind |-> "local advice",
          totalMonthly |-> getTotalMonthly(list),
          totalYearly |-> getTotalYearly(list),
          breakdown |-> getCategoryBreakdown(list)]

\* C25: with an empty API key, a response that is not OK, a response without
\* a candidate, or a fetch that throws, getAdvice resolves, with the text of
\* the local advisor for the active subscriptions, and does not reject.
C25_AdviceFallsBackToLocal ==
    (/\ ret.op = "getAdvice"
     /\ \/ trim(ret.apiKey) = <<>>
        \/ ret.response # "candidate") =>
        /\ ret.outcome = "resolved"
        /\ ret.value = LocalAdviceOf(getSubscriptions(Store, currentUser, TRUE,
                                                      ret.readOk))

\* getAdvice was called without an API key on a store with an active local
\* record, and rejected.
C25_Witness ==
    /\ ret.op = "getAdvice"
    /\ ret.apiKey = <<>>
    /\ currentUser = NoUser
    /\ \E i \in DOMAIN localSubs : localSubs[i].is_active
    /\ ret.outcome = "rejected"

(***************************************************************************)
(* Properties of the normalised pair                                       *)
(***************************************************************************)

\* monthly and yearly are integers, 0 <= monthly <= yearly, and yearly is
\* within 6 of twelve times monthly.
NormalisedPair(monthly, yearly) ==
    /\ ~isNaN(monthly) /\ ~isNaN(yearly)
    /\ monthly.d = 1 /\ yearly.d = 1
    /\ 0 <= monthly.n
    /\ monthly.n <= yearly.n
    /\ Abs(yearly.n - 12 * monthly.n) <= 6

\* C30: for every positive amount in JPY and every cycle the pair of
\* calculateMonthlyYearly is a pair of non-negative integers with
\* monthly <= yearly and |yearly - 12 * monthly| <= 6; so is the pair
\* calculateAmounts returns for a positive amount and a positive rate.
C30_PairIsNormalised ==
    /\ (ret.op = "calculateMonthlyYearly" /\ NumGtZero(ret.jpy)) =>
          NormalisedPair(ret.value.monthly, ret.value.yearly)
    /\ (/\ ret.op = "calculateAmounts"
        /\ NumGtZero(parseFloat(ret.data.amount_original))
        /\ NumGtZero(ret.rate)) =>
          NormalisedPair(ret.value.amount_jpy_monthly, ret.value.amount_jpy_yearly)

\* 6 JPY a year: monthly round(0.5) = 1 and yearly 6, six less than 12 * 1.
C30_Witness ==
    /\ ret.op = "calculateMonthlyYearly" /\ ret.cycle = CycleYearly
    /\ ret.jpy = Int2Num(6)
    /\ ret.value = [monthly |-> Int2Num(1), yearly |-> Int2Num(6)]

====
